---- MODULE Spec2Model ----
(***************************************************************************)
(* Model of scripts/update_program_registry.py: the aggregation of program *)
(* identifiers out of the mint_event rows (extract_programs_from_db), the  *)
(* reconciliation of the aggregate with the registry file                  *)
(* (update_registry), and main's sequencing of the two with the notifier.  *)
(***************************************************************************)
EXTENDS Integers, Sequences, FiniteSets, TLC

\* ------------------------------------------------------------------ bounds
\* rows read from the cursor in the row-by-row specification SpecAgg
MaxRows == 2
\* instructions per transaction
MaxIx == 2
\* rows of the database in one run of main (specification Spec)
MaxDbRows == 2
\* invocations of main in one behaviour
MaxRuns == 2
\* largest count stored in the registry file before the first run
MaxCount == 2

\* ------------------------------------------------- Python values, encoded
\* None as stored in sample_tx
None == "None"
\* None as stored in first_seen / last_seen (timestamps are unix times >= 0)
NoneTs == -1
\* a key that the JSON object does not carry (string-valued keys)
Absent == "<absent>"
\* the key 'timestamp' is not carried
AbsentTs == -2
\* a JSON array where a string was expected: parses, but is not hashable
Unhashable == "<list>"
\* an instruction object without the key 'programId'
NoPid == "<no programId>"
\* an instruction that is a JSON number: `'programId' in ix` raises TypeError
BadIx == "<number>"

Pids == {"P1", "P2"}

Range(s) == {s[i] : i \in DOMAIN s}

SeqsUpTo(S, n) == UNION {[1..k -> S] : k \in 0..n}

\* every order in which a Python set may be iterated
Orders(S) == {s \in [1..Cardinality(S) -> S] : Range(s) = S}

\* dict.get(key, default)
Get(v, default) == IF v = Absent THEN default ELSE v

GetTs(v, default) == IF v = AbsentTs THEN default ELSE v

\* truthiness of a str-or-None and of an int-or-None
Falsy(x) == x = None \/ x = ""

FalsyTs(t) == t = NoneTs \/ t = 0

\* ------------------------------------------------------------ aggregation
\* the factory of the defaultdict
DefaultStats ==
  [count |-> 0, sources |-> {}, types |-> {}, sample_tx |-> None,
   first_seen |-> NoneTs, last_seen |-> NoneTs]

EmptyStats == [p \in {} |-> DefaultStats]

\* program_stats[pid], creating the entry when it is missing
Lookup(program_stats, pid) ==
  IF pid \in DOMAIN program_stats THEN program_stats[pid] ELSE DefaultStats

Put(f, k, v) == [x \in DOMAIN f \cup {k} |-> IF x = k THEN v ELSE f[x]]

\* a row of mint_event.raw_json
TextRow ==
  [kind |-> "text", source |-> Absent, type |-> Absent, signature |-> Absent,
   timestamp |-> AbsentTs, instructions |-> <<>>]

JsonRows ==
  [kind : {"json"}, source : {"X", Absent, Unhashable}, type : {"MINT", Absent},
   signature : {"s1", "s2", Absent}, timestamp : {AbsentTs, 1, 2},
   instructions : SeqsUpTo(Pids \cup {NoPid, BadIx}, MaxIx)]

Rows == {TextRow} \cup JsonRows

\* the body of `for pid in programs` for one pid; ok = FALSE when it raised,
\* and then stats holds what had been assigned before the raise
UpdateStats(program_stats, pid, tx) ==
  LET source == Get(tx.source, "UNKNOWN")
      tx_type == Get(tx.type, "UNKNOWN")
      signature == Get(tx.signature, "")
      timestamp == GetTs(tx.timestamp, 0)
      stats == Lookup(program_stats, pid)
      counted == [stats EXCEPT !.count = @ + 1]
      full ==
        [counted EXCEPT
           !.sources = @ \cup {source},
           !.types = @ \cup {tx_type},
           !.sample_tx = IF Falsy(@) THEN signature ELSE @,
           !.first_seen = IF FalsyTs(@) \/ timestamp < @ THEN timestamp ELSE @,
           !.last_seen = IF FalsyTs(@) \/ timestamp > @ THEN timestamp ELSE @]
  IN  IF source = Unhashable
        THEN [stats |-> Put(program_stats, pid, counted), ok |-> FALSE]
        ELSE [stats |-> Put(program_stats, pid, full), ok |-> TRUE]

RECURSIVE UpdateAll(_, _, _)
\* `for pid in programs` in the iteration order `order`, up to the first raise
UpdateAll(acc, order, tx) ==
  IF order = <<>> \/ ~acc.ok
    THEN acc
    ELSE UpdateAll(UpdateStats(acc.stats, Head(order), tx), Tail(order), tx)

\* the set `programs` collected from tx['instructions']
ProgramsOf(instructions) == Range(instructions) \cap Pids

\* the try block for one row: every result it can end with
ProcessRowOutcomes(program_stats, row) ==
  IF row.kind = "text" \/ BadIx \in Range(row.instructions)
    THEN {[stats |-> program_stats, ok |-> FALSE]}
    ELSE {UpdateAll([stats |-> program_stats, ok |-> TRUE], order, row) :
            order \in Orders(ProgramsOf(row.instructions))}

RECURSIVE extract_programs_from_db(_)
\* the whole scan of `rows`: every result it can end with; failed holds the
\* positions of the rows whose handling raised
extract_programs_from_db(rows) ==
  IF rows = <<>>
    THEN {[stats |-> EmptyStats, processed |-> 0, failed |-> {}]}
    ELSE LET n == Len(rows)
         IN  UNION {{[stats |-> o.stats,
                      processed |-> IF o.ok THEN p.processed + 1 ELSE p.processed,
                      failed |-> IF o.ok THEN p.failed ELSE p.failed \cup {n}] :
                       o \in ProcessRowOutcomes(p.stats, rows[n])} :
                     p \in extract_programs_from_db(SubSeq(rows, 1, n - 1))}

\* --------------------------------------------------------- reconciliation
\* the registry file does not exist
NoFile == [exists |-> FALSE]

ProgramIds(pending) == {pending[i].programId : i \in DOMAIN pending}

\* existing_programs
ExistingPrograms_programsOnly(registry) == DOMAIN registry.programs

ExistingPrograms(registry) ==
  DOMAIN registry.programs \cup ProgramIds(registry.pending_review)

\* the value assigned to an existing entry's count
RefreshedCount_increment(old, aggregated) == old + aggregated

RefreshedCount(old, aggregated) == aggregated

\* the entry built for a new program; srcs is list(stats['sources'])
NewEntry(pid, stats, srcs, now) ==
  [programId |-> pid, count |-> stats.count, sources |-> srcs,
   sample_tx |-> stats.sample_tx,
   solscan_url |-> <<"https://solscan.io/account/", pid>>,
   status |-> "pending_review", detected_at |-> now]

\* the position the loop over pending_review stops at for pid
FirstMatch(pending, pid) ==
  CHOOSE i \in DOMAIN pending :
    /\ pending[i].programId = pid
    /\ \A j \in 1..(i - 1) : pending[j].programId # pid

\* registry['programs'] after the loop over program_stats.items()
RefreshPrograms(registry, program_stats) ==
  [p \in DOMAIN registry.programs |->
     IF p \in DOMAIN program_stats /\ p \in ExistingPrograms(registry)
       THEN [registry.programs[p] EXCEPT
               !.count = RefreshedCount(@, program_stats[p].count)]
       ELSE registry.programs[p]]

\* registry['pending_review'] after the loop over program_stats.items()
RefreshPending(registry, program_stats) ==
  LET pending == registry.pending_review
  IN  [i \in DOMAIN pending |->
         LET pid == pending[i].programId
         IN  IF /\ pid \in DOMAIN program_stats
                /\ pid \in ExistingPrograms(registry)
                /\ pid \notin DOMAIN registry.programs
                /\ i = FirstMatch(pending, pid)
               THEN [pending[i] EXCEPT
                       !.count = RefreshedCount(@, program_stats[pid].count)]
               ELSE pending[i]]

\* the place of e in a list sorted by count, descending, behind its equals
InsertDesc(sorted, e) ==
  LET k == Cardinality({i \in DOMAIN sorted : sorted[i].count >= e.count})
  IN  SubSeq(sorted, 1, k) \o <<e>> \o SubSeq(sorted, k + 1, Len(sorted))

RECURSIVE SortByCountDesc(_)
\* list.sort(key=count, reverse=True): stable
SortByCountDesc(list) ==
  IF list = <<>>
    THEN <<>>
    ELSE InsertDesc(SortByCountDesc(SubSeq(list, 1, Len(list) - 1)),
                    list[Len(list)])

\* pending_review after `if new_programs:` ... `else:`
WithNew_replace(pending, new_programs) ==
  IF new_programs # <<>> THEN SortByCountDesc(new_programs) ELSE pending

WithNew(pending, new_programs) ==
  IF new_programs # <<>>
    THEN SortByCountDesc(pending \o new_programs)
    ELSE pending

\* the registry that update_registry dumps, new_programs being the list built
\* by the loop and now the reading of the clock
Reconciled(registry, program_stats, new_programs, now) ==
  LET programs == RefreshPrograms(registry, program_stats)
      pending == WithNew(RefreshPending(registry, program_stats), new_programs)
  IN  [exists |-> TRUE,
       programs |-> programs,
       pending_review |-> pending,
       version |-> now,
       last_updated |-> now,
       total_programs |-> Cardinality(DOMAIN program_stats),
       verified_count |-> Cardinality(DOMAIN programs),
       pending_count |-> Len(pending)]

\* every list new_programs the loop can build: the identifiers absent from
\* existing_programs in some iteration order of the dict, the sources of each
\* in some iteration order of its set
NewProgramLists(registry, program_stats, now) ==
  LET fresh == DOMAIN program_stats \ ExistingPrograms(registry)
      lists == UNION {Orders(program_stats[p].sources) : p \in fresh}
      srcsOf == {f \in [fresh -> lists] :
                   \A p \in fresh : f[p] \in Orders(program_stats[p].sources)}
  IN  {[i \in 1..Cardinality(fresh) |->
          NewEntry(order[i], program_stats[order[i]], srcs[order[i]], now)] :
         order \in Orders(fresh), srcs \in srcsOf}

\* main: `if new_count > 0`
ShouldNotify_always(new_count) == new_count >= 0

ShouldNotify(new_count) == new_count > 0

\* the status the process ends with: sys.exit(1) in update_registry when the
\* registry is missing, sys.exit(0) at the end of main
ExitStatus_zero(ending) == 0

ExitStatus(ending) == IF ending = "registry missing" THEN 1 ELSE 0

\* send_telegram_notification: `if not bot_token or not chat_id`
CredentialsMissing(env) ==
  env.TELEGRAM_BOT_TOKEN \in {Absent, ""} \/ env.TELEGRAM_CHAT_ID \in {Absent, ""}

\* ------------------------------------------------------ inputs of a run
\* the .env file, as load_env returns it
Envs == [TELEGRAM_BOT_TOKEN : {Absent, "token"}, TELEGRAM_CHAT_ID : {Absent, "chat"}]

\* the rows of mint_event in a run of main: well-formed events, one for each
\* non-empty set of programs
MainRows ==
  {[kind |-> "json", source |-> "X", type |-> "MINT", signature |-> "s1",
    timestamp |-> 1, instructions |-> ix] :
     ix \in {<<"P1">>, <<"P2">>, <<"P1", "P2">>}}

DbContents == SeqsUpTo(MainRows, MaxDbRows)

\* a verified entry and a pending entry as the registry file holds them
\* before the first run
Verified(c) == [count |-> c, name |-> "curated"]

Pending0(pid, c) ==
  [programId |-> pid, count |-> c, sources |-> <<"X">>, sample_tx |-> "s0",
   solscan_url |-> <<"https://solscan.io/account/", pid>>,
   status |-> "pending_review", detected_at |-> 0]

IsSortedDesc(list) ==
  \A i \in 1..(Len(list) - 1) : list[i].count >= list[i + 1].count

\* the programs mappings and the pending_review lists of the registry files
\* a run can start from
ProgramsMaps ==
  UNION {[V -> {Verified(c) : c \in 1..MaxCount}] : V \in SUBSET Pids}

PendingLists ==
  UNION {{[i \in DOMAIN order |-> Pending0(order[i], cnt[order[i]])] :
            order \in Orders(Q), cnt \in [Q -> 1..MaxCount]} :
          Q \in SUBSET Pids}

\* the registry files a run can start from: every identifier in at most one
\* of programs and pending_review, pending_review sorted
Registries ==
  {[exists |-> TRUE, programs |-> r[1], pending_review |-> r[2],
    version |-> 0, last_updated |-> 0, total_programs |-> 0,
    verified_count |-> Cardinality(DOMAIN r[1]), pending_count |-> Len(r[2])] :
     r \in {q \in ProgramsMaps \X PendingLists :
              DOMAIN q[1] \cap ProgramIds(q[2]) = {} /\ IsSortedDesc(q[2])}}

VARIABLES
  pc,               \* position of the run
  db,               \* rows of mint_event read by the cursor
  program_stats,    \* the accumulator of extract_programs_from_db
  processed,        \* its counter of rows handled without a raise
  failed,           \* positions in db of the rows whose handling raised
  file,             \* the registry file: NoFile or the document it holds
  env_vars,         \* what load_env returned
  new_count,        \* first value returned by update_registry
  pending_programs, \* second value returned by update_registry
  notification,     \* how send_telegram_notification ended, "none" if not called
  exit_status,      \* status of the process, -1 while it runs
  runs,             \* invocations of main so far; also the reading of the clock
  registry_before,  \* the document update_registry loaded in this run
  written,          \* update_registry dumped the registry in this run
  prev_stats,       \* program_stats of the previous run
  prev_updated      \* the previous run dumped the registry

aggVars == <<db, program_stats, processed, failed>>

mainVars ==
  <<file, env_vars, new_count, pending_programs, notification, exit_status, runs,
    registry_before, written, prev_stats, prev_updated>>

vars == <<pc, aggVars, mainVars>>

NoEnv == [TELEGRAM_BOT_TOKEN |-> Absent, TELEGRAM_CHAT_ID |-> Absent]

\* the variables of one run, before it starts
RunStart ==
  /\ db = <<>>
  /\ program_stats = EmptyStats
  /\ processed = 0
  /\ failed = {}
  /\ env_vars = NoEnv
  /\ new_count = 0
  /\ pending_programs = <<>>
  /\ notification = "none"
  /\ exit_status = -1
  /\ registry_before = NoFile
  /\ written = FALSE

\* ---------------------------------------------- SpecAgg: the scan, by row
InitAgg ==
  /\ pc = "extracting"
  /\ RunStart
  /\ file = NoFile
  /\ runs = 1
  /\ prev_stats = EmptyStats
  /\ prev_updated = FALSE

\* one iteration of `for row in cursor`
ProcessRow ==
  /\ pc = "extracting"
  /\ Len(db) < MaxRows
  /\ \E row \in Rows :
       \E o \in ProcessRowOutcomes(program_stats, row) :
         /\ db' = Append(db, row)
         /\ program_stats' = o.stats
         /\ processed' = IF o.ok THEN processed + 1 ELSE processed
         /\ failed' = IF o.ok THEN failed ELSE failed \cup {Len(db) + 1}
  /\ UNCHANGED <<pc, mainVars>>

\* the cursor is exhausted: db.close() and return
CloseDb ==
  /\ pc = "extracting"
  /\ pc' = "extracted"
  /\ UNCHANGED <<aggVars, mainVars>>

NextAgg == ProcessRow \/ CloseDb

SpecAgg == InitAgg /\ [][NextAgg]_vars

\* ------------------------------------------------- Spec: main, run by run
Init ==
  /\ pc = "start"
  /\ RunStart
  /\ file \in Registries \cup {NoFile}
  /\ runs = 1
  /\ prev_stats = EmptyStats
  /\ prev_updated = FALSE

\* env_vars = load_env()
LoadEnv ==
  /\ pc = "start"
  /\ env_vars' \in Envs
  /\ pc' = "env_loaded"
  /\ UNCHANGED <<aggVars, file, new_count, pending_programs, notification,
                 exit_status, runs, registry_before, written, prev_stats,
                 prev_updated>>

\* program_stats = extract_programs_from_db()
ExtractPrograms ==
  /\ pc = "env_loaded"
  /\ \E rows \in DbContents :
       \E o \in extract_programs_from_db(rows) :
         /\ db' = rows
         /\ program_stats' = o.stats
         /\ processed' = o.processed
         /\ failed' = o.failed
  /\ pc' = "extracted"
  /\ UNCHANGED mainVars

\* update_registry: the registry file is missing
RegistryMissing ==
  /\ pc = "extracted"
  /\ ~file.exists
  /\ pc' = "exited"
  /\ exit_status' = ExitStatus("registry missing")
  /\ UNCHANGED <<aggVars, file, env_vars, new_count, pending_programs,
                 notification, runs, registry_before, written, prev_stats,
                 prev_updated>>

\* update_registry: load, reconcile, dump, return
UpdateRegistry ==
  /\ pc = "extracted"
  /\ file.exists
  /\ \E new_programs \in NewProgramLists(file, program_stats, runs) :
       LET registry == Reconciled(file, program_stats, new_programs, runs)
       IN  /\ file' = registry
           /\ new_count' = Len(new_programs)
           /\ pending_programs' = registry.pending_review
  /\ registry_before' = file
  /\ written' = TRUE
  /\ pc' = "updated"
  /\ UNCHANGED <<aggVars, env_vars, notification, exit_status, runs, prev_stats,
                 prev_updated>>

\* send_telegram_notification returns early: credentials not found
NotifySkipped ==
  /\ pc = "updated"
  /\ ShouldNotify(new_count)
  /\ CredentialsMissing(env_vars)
  /\ notification' = "skipped"
  /\ pc' = "notified"
  /\ UNCHANGED <<aggVars, file, env_vars, new_count, pending_programs,
                 exit_status, runs, registry_before, written, prev_stats,
                 prev_updated>>

\* send_telegram_notification posts the message: response.ok, a response
\* that is not ok, or an exception of requests.post, which it catches
NotifyPosted ==
  /\ pc = "updated"
  /\ ShouldNotify(new_count)
  /\ ~CredentialsMissing(env_vars)
  /\ notification' \in {"sent", "refused", "transport error"}
  /\ pc' = "notified"
  /\ UNCHANGED <<aggVars, file, env_vars, new_count, pending_programs,
                 exit_status, runs, registry_before, written, prev_stats,
                 prev_updated>>

\* the end of main: sys.exit(0)
Complete ==
  /\ \/ pc = "notified"
     \/ pc = "updated" /\ ~ShouldNotify(new_count)
  /\ pc' = "exited"
  /\ exit_status' = ExitStatus("completed")
  /\ UNCHANGED <<aggVars, file, env_vars, new_count, pending_programs,
                 notification, runs, registry_before, written, prev_stats,
                 prev_updated>>

\* the script is invoked again
Restart ==
  /\ pc = "exited"
  /\ runs < MaxRuns
  /\ pc' = "start"
  /\ db' = <<>>
  /\ program_stats' = EmptyStats
  /\ processed' = 0
  /\ failed' = {}
  /\ env_vars' = NoEnv
  /\ new_count' = 0
  /\ pending_programs' = <<>>
  /\ notification' = "none"
  /\ exit_status' = -1
  /\ registry_before' = NoFile
  /\ written' = FALSE
  /\ runs' = runs + 1
  /\ prev_stats' = program_stats
  /\ prev_updated' = written
  /\ UNCHANGED file

Next ==
  \/ LoadEnv
  \/ ExtractPrograms
  \/ RegistryMissing
  \/ UpdateRegistry
  \/ NotifySkipped
  \/ NotifyPosted
  \/ Complete
  \/ Restart

Spec == Init /\ [][Next]_vars

\* --------------------------------------------- properties of the scan
\* db with the row at position k removed
RemoveAt(rows, k) == SubSeq(rows, 1, k - 1) \o SubSeq(rows, k + 1, Len(rows))

\* db read in the order p
Permuted(rows, p) == [i \in DOMAIN rows |-> rows[p[i]]]

\* positions of the rows handled without a raise that reference pid
Referencing(pid) ==
  {k \in DOMAIN db \ failed : pid \in ProgramsOf(db[k].instructions)}

TimestampsOf(pid) == {GetTs(db[k].timestamp, 0) : k \in Referencing(pid)}

Minimum(S) == CHOOSE m \in S : \A x \in S : m <= x

Maximum(S) == CHOOSE m \in S : \A x \in S : m >= x

\* C2: whatever the order in which the rows of a table are read, the scan
\* returns the same ProgramStats for every program identifier (stated for
\* tables all of whose rows are handled without a raise)
C2_OrderInvariant ==
  (pc = "extracted" /\ failed = {}) =>
    \A p \in Orders(DOMAIN db) :
      program_stats \in {o.stats : o \in extract_programs_from_db(Permuted(db, p))}

\* C3: a row whose handling raised contributes nothing: the result of the
\* scan is a result of the scan of the table without that row
C3_FailedRowContributesNothing ==
  pc = "extracted" =>
    \A k \in failed :
      program_stats \in {o.stats : o \in extract_programs_from_db(RemoveAt(db, k))}

\* C6: the count of every program identifier is the number of rows handled
\* without a raise that reference it in at least one instruction
C6_CountIsReferencingEvents ==
  pc = "extracted" =>
    \A pid \in Pids :
      Lookup(program_stats, pid).count = Cardinality(Referencing(pid))

\* C9: after a scan in which no row raised, first_seen is the minimum and
\* last_seen the maximum of the timestamps of the events referencing the
\* identifier, an absent timestamp counting as 0
C9_FirstLastAreMinMax ==
  (pc = "extracted" /\ failed = {}) =>
    \A pid \in DOMAIN program_stats :
      /\ program_stats[pid].first_seen = Minimum(TimestampsOf(pid))
      /\ program_stats[pid].last_seen = Maximum(TimestampsOf(pid))

\* ----------------------------------------- properties of the reconciliation
\* pid is in programs or in pending_review of the registry
KnownIn(registry, pid) ==
  pid \in DOMAIN registry.programs \/ pid \in ProgramIds(registry.pending_review)

\* the entries of pending_review for pid
EntriesOf(registry, pid) ==
  {registry.pending_review[i] :
     i \in {j \in DOMAIN registry.pending_review :
              registry.pending_review[j].programId = pid}}

\* the entries of pending_review, as pairs of identifier and count
PendingCounts(registry) ==
  {<<registry.pending_review[i].programId, registry.pending_review[i].count>> :
     i \in DOMAIN registry.pending_review}

\* C1: a run that starts from a registry whose pending_review is sorted by
\* count, descending, dumps a registry whose pending_review is sorted so
C1_PendingSortedAfterRun ==
  (pc = "updated" /\ IsSortedDesc(registry_before.pending_review)) =>
    IsSortedDesc(file.pending_review)

\* C4: a run that reconciles the same aggregated mapping as the run before
\* it reports no new program and leaves pending_count, verified_count, the
\* entries of programs and of pending_review and the count of each as the
\* run before left them
C4_Idempotent ==
  (pc = "updated" /\ prev_updated /\ prev_stats = program_stats) =>
    /\ new_count = 0
    /\ file.pending_count = registry_before.pending_count
    /\ file.verified_count = registry_before.verified_count
    /\ DOMAIN file.programs = DOMAIN registry_before.programs
    /\ \A p \in DOMAIN file.programs :
         file.programs[p].count = registry_before.programs[p].count
    /\ Len(file.pending_review) = Len(registry_before.pending_review)
    /\ PendingCounts(file) = PendingCounts(registry_before)

\* a second run over the mapping of the first, which had found new programs
C4_Witness ==
  /\ pc = "updated" /\ prev_updated /\ prev_stats = program_stats
  /\ DOMAIN program_stats = Pids
  /\ \E i \in DOMAIN file.pending_review : file.pending_review[i].detected_at = 1
  /\ \E p \in DOMAIN file.programs : file.programs[p].count = 2

\* C5: after every run each aggregated identifier is a key of programs or
\* the programId of exactly one entry of pending_review, and not both
C5_PartitionComplete ==
  pc = "updated" =>
    \A pid \in DOMAIN program_stats :
      /\ (pid \in DOMAIN file.programs) # (pid \in ProgramIds(file.pending_review))
      /\ Cardinality({i \in DOMAIN file.pending_review :
                        file.pending_review[i].programId = pid}) <= 1

\* a second run that finds one identifier pending and the other one new
C5_Witness ==
  /\ pc = "updated" /\ runs = 2
  /\ DOMAIN program_stats = Pids
  /\ new_count = 1
  /\ Len(registry_before.pending_review) = 1
  /\ Len(file.pending_review) = 2

\* C7: for an aggregated identifier the registry knew before the run, the
\* entry after the run is the entry before it with count replaced by the
\* aggregated count, and the identifier is not among the new ones
C7_CountReplaced ==
  pc = "updated" =>
    /\ \A pid \in DOMAIN program_stats :
         KnownIn(registry_before, pid) =>
           /\ pid \in DOMAIN registry_before.programs =>
                /\ pid \in DOMAIN file.programs
                /\ file.programs[pid] =
                     [registry_before.programs[pid] EXCEPT
                        !.count = program_stats[pid].count]
           /\ pid \in ProgramIds(registry_before.pending_review) =>
                EntriesOf(file, pid) =
                  {[e EXCEPT !.count = program_stats[pid].count] :
                     e \in EntriesOf(registry_before, pid)}
    /\ new_count =
         Cardinality({pid \in DOMAIN program_stats : ~KnownIn(registry_before, pid)})

\* a verified and a pending identifier, both stored with a count other than
\* the aggregated one
C7_Witness ==
  /\ pc = "updated"
  /\ \E p \in DOMAIN program_stats \cap DOMAIN registry_before.programs :
       /\ registry_before.programs[p].count = 2
       /\ program_stats[p].count = 1
  /\ \E e \in Range(registry_before.pending_review) :
       /\ e.programId \in DOMAIN program_stats
       /\ e.count = 1
       /\ program_stats[e.programId].count = 2
  /\ new_count = 0

\* C8: update_registry started without a registry file ends the run with a
\* status other than success, the file still missing, nothing dumped and
\* the notifier not called
C8_MissingRegistryFatal ==
  [][(pc = "extracted" /\ ~file.exists) =>
       /\ pc' = "exited"
       /\ exit_status' # 0
       /\ file' = file
       /\ ~written'
       /\ notification' = "none"]_vars

\* a run that aggregated two programs and ended on the missing registry
C8_Witness ==
  /\ pc = "exited"
  /\ ~file.exists
  /\ DOMAIN program_stats = Pids
  /\ exit_status = 1

\* C10: the notifier is called only with new_count > 0 and the registry
\* dumped; however it ends, the file stays as dumped and the run exits 0
C10_NotifierContained ==
  [][/\ (notification = "none" /\ notification' # "none") =>
          /\ new_count > 0
          /\ written
          /\ file.exists
          /\ file' = file
          /\ pending_programs = file.pending_review
     /\ pc = "notified" =>
          /\ pc' = "exited"
          /\ exit_status' = 0
          /\ file' = file]_vars

\* a run that ended with success after requests.post had raised
C10_Witness ==
  /\ pc = "exited"
  /\ notification = "transport error"
  /\ exit_status = 0
  /\ written
  /\ new_count > 0

====
